---- MODULE Spec2Model ----
(***************************************************************************)
(* A model of django_structure_scanner.py: the location resolver          *)
(* (get_node_line_numbers), the declaration extractor                     *)
(* (extract_functions_classes), the import extractor                      *)
(* (find_imports_and_relations) and the aggregator                        *)
(* (generate_project_structure_json) with the parser adapter (parse_code).*)
(*                                                                         *)
(* A syntax tree is a sequence of statement nodes numbered in source      *)
(* order (pre-order), one statement per line, so node i starts on line i. *)
(* Node 0 is the Module node.  Python's None is the string "None" where   *)
(* the other values are strings, and a record with absent = TRUE where    *)
(* the other values are records.                                          *)
(***************************************************************************)
EXTENDS Integers, Sequences, FiniteSets

VARIABLES
    pc,            \* position of the flow of control
    tree,          \* the syntax tree handed to the extractors
    source,        \* the source text of that tree, as its lines
    nodes,         \* the list extract_functions_classes returns
    imports,       \* the list find_imports_and_relations returns
    node,          \* the node handed to get_node_line_numbers
    source_lines,  \* the line array handed to get_node_line_numbers
    span,          \* the dict get_node_line_numbers returns
    fs,            \* the file system: the Python files under each root
    app_paths,     \* the roots handed to generate_project_structure_json
    project_data,  \* its local project_data
    app_data,      \* its local app_data
    py_files,      \* its local py_files
    ai,            \* index of the root being scanned
    fi,            \* index of the file being scanned
    result,        \* how the call ended: a return value or an exception
    output_file,   \* the document written to output_file
    now            \* the wall clock datetime.now() reads

vars == <<pc, tree, source, nodes, imports, node, source_lines, span,
          fs, app_paths, project_data, app_data, py_files, ai, fi, result,
          output_file, now>>

treeVars == <<tree, source, nodes, imports>>
locVars  == <<node, source_lines, span>>
genVars  == <<fs, app_paths, project_data, app_data, py_files, ai, fi, result,
              output_file, now>>

----------------------------------------------------------------------------
(* Bounds of the model *)

MaxNodes == 4      \* statement nodes of a tree of definitions, the Module apart
MaxImportNodes == 3   \* statement nodes of a tree of imports, the Module apart
MaxLine == 2       \* largest line number of a node handed to the resolver
MaxCol == 1        \* largest column offset and line length
MaxRoots == 2      \* roots handed to the aggregator
MaxFiles == 2      \* files enumerated under a root
MaxClock == 2      \* ticks of the wall clock during a run

----------------------------------------------------------------------------
(* Python values *)

None == "None"

\* x or y, on strings: None and "" are falsy
PyOr(x, y) == IF x = None \/ x = "" THEN y ELSE x

\* seq[k] raises IndexError unless -len(seq) <= k < len(seq)
HasIndex(seq, k) == -Len(seq) <= k /\ k < Len(seq)

\* seq[k], a negative k counting from the end
PyItem(seq, k) == IF k >= 0 THEN seq[k + 1] ELSE seq[Len(seq) + k + 1]

\* the ids of S in increasing order
RECURSIVE Sorted(_)
Sorted(S) ==
    IF S = {} THEN <<>>
    ELSE LET m == CHOOSE x \in S : \A y \in S : x <= y
         IN <<m>> \o Sorted(S \ {m})

----------------------------------------------------------------------------
(* get_node_line_numbers *)

\* the same with the line looked up one too far (source_lines[line_end])
get_node_line_numbers_off(n, lines) ==
    LET line_start == n.lineno
        line_end == IF n.has_end_lineno THEN n.end_lineno ELSE n.lineno
        col_start == IF n.has_col_offset THEN n.col_offset ELSE 0
        raised == ~n.has_end_col_offset /\ ~HasIndex(lines, line_end)
    IN IF raised
       THEN [line_start |-> line_start, line_end |-> line_start,
             col_start |-> 0, col_end |-> 0]
       ELSE [line_start |-> line_start, line_end |-> line_end,
             col_start |-> col_start,
             col_end |-> IF n.has_end_col_offset THEN n.end_col_offset
                         ELSE Len(PyItem(lines, line_end))]

\* The try block evaluates three conditional expressions; only the lookup
\* source_lines[line_end-1] can raise (IndexError), and the handler then
\* resets line_end, col_start and col_end.
get_node_line_numbers(n, lines) ==
    LET line_start == n.lineno
        line_end == IF n.has_end_lineno THEN n.end_lineno ELSE n.lineno
        col_start == IF n.has_col_offset THEN n.col_offset ELSE 0
        raised == ~n.has_end_col_offset /\ ~HasIndex(lines, line_end - 1)
    IN IF raised
       THEN [line_start |-> line_start, line_end |-> line_start,
             col_start |-> 0, col_end |-> 0]
       ELSE [line_start |-> line_start, line_end |-> line_end,
             col_start |-> col_start,
             col_end |-> IF n.has_end_col_offset THEN n.end_col_offset
                         ELSE Len(PyItem(lines, line_end - 1))]

----------------------------------------------------------------------------
(* Syntax trees, as ast.parse builds them *)

NoTree == [absent |-> TRUE]
NoSource == [absent |-> TRUE]

FunctionKinds == {"FunctionDef", "AsyncFunctionDef"}
DefKinds == FunctionKinds \cup {"ClassDef"}
ImportKinds == {"Import", "ImportFrom"}
BlockKinds == DefKinds \cup {"If"}

\* the proper ancestors of node i under the parent map p
RECURSIVE Ancestors(_, _)
Ancestors(p, i) == IF i = 0 THEN {} ELSE {p[i]} \cup Ancestors(p, p[i])

\* parent maps of n nodes numbered in source order: a node's parent is the
\* previous node or one of the previous node's ancestors
Shapes(n) ==
    {p \in [1..n -> 0..(n - 1)] :
        \A i \in 1..n : /\ p[i] < i
                        /\ i > 1 => p[i] \in {i - 1} \cup Ancestors(p, i - 1)}

\* a tree: bodies hang only under block statements
Tree(p, s) == [absent |-> FALSE, parent |-> p, stmt |-> s]
IsTree(p, s) == \A i \in DOMAIN p : p[i] # 0 => s[p[i]].kind \in BlockKinds

NodeIds(t) == DOMAIN t.stmt
KindOf(t, i) == IF i = 0 THEN "Module" ELSE t.stmt[i].kind

RECURSIVE Depth(_, _)
Depth(t, i) == IF i = 0 THEN 0 ELSE 1 + Depth(t, t.parent[i])

\* the last node of the subtree of i
LastOf(t, i) ==
    CHOOSE m \in NodeIds(t) :
        /\ (m = i \/ i \in Ancestors(t.parent, m))
        /\ \A k \in NodeIds(t) :
               (k = i \/ i \in Ancestors(t.parent, k)) => k <= m

\* the position attributes ast.parse gives statement node i: all four are
\* present, the statement ends on the last line of its subtree, and a body
\* is indented by one column per level
AstNode(t, i) ==
    [lineno |-> i,
     has_end_lineno |-> TRUE, end_lineno |-> LastOf(t, i),
     has_col_offset |-> TRUE, col_offset |-> Depth(t, i) - 1,
     has_end_col_offset |-> TRUE, end_col_offset |-> Depth(t, i)]

\* source.split('\n') if source else []
split_lines(src) == IF src.absent \/ src.lines = <<>> THEN <<>> ELSE src.lines

\* ast.iter_child_nodes: the children of i, in field order (source order)
iter_child_nodes(t, i) == Sorted({c \in NodeIds(t) : t.parent[c] = i})

RECURSIVE WalkQueue(_, _)
WalkQueue(t, todo) ==
    IF todo = <<>> THEN <<>>
    ELSE <<Head(todo)>> \o WalkQueue(t, Tail(todo) \o iter_child_nodes(t, Head(todo)))

\* the node and its direct children only (ast.iter_child_nodes for ast.walk)
walk_shallow(t, i) == <<i>> \o iter_child_nodes(t, i)

\* ast.walk(node): breadth-first, from a deque seeded with the node
walk(t, i) == WalkQueue(t, <<i>>)

----------------------------------------------------------------------------
(* extract_functions_classes *)

\* the dict appended for a function found inside a class
MethodRecord(t, lines, f) ==
    [name |-> t.stmt[f].name,
     is_async |-> t.stmt[f].kind = "AsyncFunctionDef",
     location |-> get_node_line_numbers(AstNode(t, f), lines)]

RECURSIVE MethodsIn(_, _, _, _)
MethodsIn(t, lines, c, order) ==
    IF order = <<>> THEN <<>>
    ELSE (IF KindOf(t, Head(order)) \in FunctionKinds /\ Head(order) # c
          THEN <<MethodRecord(t, lines, Head(order))>> ELSE <<>>)
         \o MethodsIn(t, lines, c, Tail(order))

\* the inner loop run over the class body only (for child in node.body)
class_methods_body(t, lines, c) == MethodsIn(t, lines, c, iter_child_nodes(t, c))

\* the inner loop: every function in ast.walk(node) other than node
class_methods(t, lines, c) == MethodsIn(t, lines, c, walk(t, c))

\* the dict appended for a definition node
DeclarationRecord(t, lines, i) ==
    IF KindOf(t, i) = "ClassDef"
    THEN [type |-> "Class",
          name |-> t.stmt[i].name,
          location |-> get_node_line_numbers(AstNode(t, i), lines),
          methods |-> class_methods(t, lines, i)]
    ELSE [type |-> "Function",
          name |-> t.stmt[i].name,
          is_async |-> KindOf(t, i) = "AsyncFunctionDef",
          location |-> get_node_line_numbers(AstNode(t, i), lines),
          methods |-> <<>>]

RECURSIVE DeclarationsIn(_, _, _)
DeclarationsIn(t, lines, order) ==
    IF order = <<>> THEN <<>>
    ELSE (IF KindOf(t, Head(order)) \in DefKinds
          THEN <<DeclarationRecord(t, lines, Head(order))>> ELSE <<>>)
         \o DeclarationsIn(t, lines, Tail(order))

extract_functions_classes(t, src) ==
    IF t.absent THEN <<>>
    ELSE DeclarationsIn(t, split_lines(src), walk(t, 0))

----------------------------------------------------------------------------
(* find_imports_and_relations *)

\* the dict appended for a target of a plain import, the alias ignored
PlainImportNoAlias(m) == [type |-> "import", module |-> m.name, name |-> m.name]

PlainImport(m) ==
    [type |-> "import", module |-> m.name, name |-> PyOr(m.asname, m.name)]

FromImport(module, m) ==
    [type |-> "importfrom", module |-> module, name |-> m.name, asname |-> m.asname]

RECURSIVE PlainImports(_)
PlainImports(names) ==
    IF names = <<>> THEN <<>>
    ELSE <<PlainImport(Head(names))>> \o PlainImports(Tail(names))

RECURSIVE FromImports(_, _)
FromImports(module, names) ==
    IF names = <<>> THEN <<>>
    ELSE <<FromImport(module, Head(names))>> \o FromImports(module, Tail(names))

\* the dicts appended for one import statement
ImportRecords(s) ==
    IF s.kind = "Import" THEN PlainImports(s.names)
    ELSE FromImports(PyOr(s.module, ""), s.names)

RECURSIVE ImportsIn(_, _)
ImportsIn(t, order) ==
    IF order = <<>> THEN <<>>
    ELSE (IF KindOf(t, Head(order)) \in ImportKinds
          THEN ImportRecords(t.stmt[Head(order)]) ELSE <<>>)
         \o ImportsIn(t, Tail(order))

find_imports_and_relations(t, src) ==
    IF t.absent THEN <<>> ELSE ImportsIn(t, walk(t, 0))

----------------------------------------------------------------------------
(* Inputs *)

Absent == [absent |-> TRUE]
Some(x) == [absent |-> FALSE, data |-> x]

\* how a call ends
Running == [kind |-> "running"]
Return(v) == [kind |-> "return", value |-> v]
Raise(e) == [kind |-> "raise", exc |-> e]

Block(k, nm) == [kind |-> k, name |-> nm, module |-> None, names |-> <<>>]
ImportStmt(k, mod, ns) == [kind |-> k, name |-> None, module |-> mod, names |-> ns]
Alias(nm, as) == [name |-> nm, asname |-> as]

\* statement forms of the trees handed to the declaration extractor; two
\* functions, and a function and a class, may share a name
DeclStmts ==
    {Block("FunctionDef", "f"), Block("FunctionDef", "g"),
     Block("AsyncFunctionDef", "f"), Block("ClassDef", "f"), Block("If", None)}

\* statement forms of the trees handed to the import extractor:
\*   import a                      import a.b as c, d
\*   from m import x               from . import x as y, z
ImportStmts ==
    {Block("FunctionDef", "f"), Block("ClassDef", "g"), Block("If", None),
     ImportStmt("Import", None, <<Alias("a", None)>>),
     ImportStmt("Import", None, <<Alias("a.b", "c"), Alias("d", None)>>),
     ImportStmt("ImportFrom", "m", <<Alias("x", None)>>),
     ImportStmt("ImportFrom", None, <<Alias("x", "y"), Alias("z", None)>>)}

\* the text of a parsed tree: one line per statement
SourceOf(t) ==
    IF t.absent THEN NoSource
    ELSE [absent |-> FALSE,
          lines |-> [i \in NodeIds(t) |-> [c \in 1..(Depth(t, i) + 1) |-> "x"]]]

\* source lines of 0..MaxCol characters
Lines == {[c \in 1..w |-> "x"] : w \in 0..MaxCol}
LineArrays == UNION {[1..n -> Lines] : n \in 0..MaxLine}

\* nodes with any of the optional position attributes missing; an end line
\* is never before the start line
LocNodes ==
    {n \in [lineno : 1..MaxLine,
            has_end_lineno : BOOLEAN, end_lineno : 0..MaxLine,
            has_col_offset : BOOLEAN, col_offset : 0..MaxCol,
            has_end_col_offset : BOOLEAN, end_col_offset : 0..MaxCol] :
        /\ IF n.has_end_lineno THEN n.end_lineno >= n.lineno ELSE n.end_lineno = 0
        /\ ~n.has_col_offset => n.col_offset = 0
        /\ ~n.has_end_col_offset => n.end_col_offset = 0}

TreeIdle ==
    /\ tree = NoTree /\ source = NoSource /\ nodes = <<>> /\ imports = <<>>
LocIdle ==
    /\ node = Absent /\ source_lines = <<>> /\ span = Absent
GenIdle ==
    /\ fs = <<>> /\ app_paths = <<>> /\ project_data = Absent /\ app_data = Absent
    /\ py_files = <<>> /\ ai = 0 /\ fi = 0 /\ result = Running
    /\ output_file = Absent /\ now = 0

----------------------------------------------------------------------------
(* The declaration extractor applied to a tree *)

InitDecl ==
    /\ pc = "extract"
    /\ \/ tree = NoTree
       \/ \E n \in 0..MaxNodes : \E p \in Shapes(n) : \E s \in [1..n -> DeclStmts] :
              IsTree(p, s) /\ tree = Tree(p, s)
    /\ source = SourceOf(tree)
    /\ nodes = <<>> /\ imports = <<>>
    /\ LocIdle /\ GenIdle

ExtractFunctionsClasses ==
    /\ pc = "extract"
    /\ nodes' = extract_functions_classes(tree, source)
    /\ pc' = "extracted"
    /\ UNCHANGED <<tree, source, imports, locVars, genVars>>

NextDecl == ExtractFunctionsClasses

SpecDecl == InitDecl /\ [][NextDecl]_vars

----------------------------------------------------------------------------
(* The import extractor applied to a tree *)

InitImports ==
    /\ pc = "imports"
    /\ \/ tree = NoTree
       \/ \E n \in 0..MaxImportNodes : \E p \in Shapes(n) : \E s \in [1..n -> ImportStmts] :
              IsTree(p, s) /\ tree = Tree(p, s)
    /\ source = SourceOf(tree)
    /\ nodes = <<>> /\ imports = <<>>
    /\ LocIdle /\ GenIdle

FindImportsAndRelations ==
    /\ pc = "imports"
    /\ imports' = find_imports_and_relations(tree, source)
    /\ pc' = "imported"
    /\ UNCHANGED <<tree, source, nodes, locVars, genVars>>

NextImports == FindImportsAndRelations

SpecImports == InitImports /\ [][NextImports]_vars

----------------------------------------------------------------------------
(* The location resolver applied to a node *)

InitLoc ==
    /\ pc = "resolve"
    /\ node \in LocNodes
    /\ source_lines \in LineArrays
    /\ span = Absent
    /\ TreeIdle /\ GenIdle

GetNodeLineNumbers ==
    /\ pc = "resolve"
    /\ span' = get_node_line_numbers(node, source_lines)
    /\ pc' = "resolved"
    /\ UNCHANGED <<node, source_lines, treeVars, genVars>>

NextLoc == GetNodeLineNumbers

SpecLoc == InitLoc /\ [][NextLoc]_vars

----------------------------------------------------------------------------
(* Paths and files.  A string is the sequence of its characters and a path   *)
(* the sequence of its segments; every root is relative to the working       *)
(* directory, as find_django_apps supplies it.                               *)

MIGRATIONS == <<"m", "i", "g", "r", "a", "t", "i", "o", "n", "s">>
INIT_PY == <<"_", "_", "i", "n", "i", "t", "_", "_", ".", "p", "y">>
Cwd == <<"/", "w">>

\* needle in hay, on strings
Contains(hay, needle) ==
    \E k \in 0..(Len(hay) - Len(needle)) : SubSeq(hay, k + 1, k + Len(needle)) = needle

\* str(path)
RECURSIVE Str(_)
Str(path) ==
    IF Len(path) = 1 THEN path[1] ELSE path[1] \o <<"/">> \o Str(Tail(path))

\* path.name
Name(path) == path[Len(path)]

\* str(path.resolve())
Resolve(path) == Cwd \o <<"/">> \o Str(path)

\* the tree of "class f: def g ...", "def f ...", "import a"
ViewsTree ==
    Tree(<<0, 1, 0, 0>>,
         <<Block("ClassDef", "f"), Block("FunctionDef", "g"), Block("FunctionDef", "f"),
           ImportStmt("Import", None, <<Alias("a", None)>>)>>)

\* the tree of an empty file
EmptyTree == Tree(<<>>, <<>>)

File(sub, content) == [sub |-> sub, content |-> content]

\* the files a root may hold, in the order rglob enumerates them: a file
\* with a syntax error, a migration, an unreadable file, an undecodable
\* file, the initializer of the migrations package, a file whose name only
\* contains the word, a file in a directory whose name only contains the
\* word, and a module with declarations
Candidates ==
    <<File(<<<<"s", ".", "p", "y">>>>, [kind |-> "syntax_error"]),
      File(<<MIGRATIONS, <<"1", ".", "p", "y">>>>, [kind |-> "text", tree |-> EmptyTree]),
      File(<<<<"r", ".", "p", "y">>>>, [kind |-> "unreadable"]),
      File(<<<<"u", ".", "p", "y">>>>, [kind |-> "undecodable"]),
      File(<<MIGRATIONS, INIT_PY>>, [kind |-> "text", tree |-> EmptyTree]),
      File(<<MIGRATIONS \o <<"_", "u", ".", "p", "y">>>>, [kind |-> "text", tree |-> EmptyTree]),
      File(<<MIGRATIONS \o <<"2">>, <<"w", ".", "p", "y">>>>,
           [kind |-> "text", tree |-> EmptyTree]),
      File(<<<<"v", ".", "p", "y">>>>, [kind |-> "text", tree |-> ViewsTree])>>

Roots == {<<<<"a">>>>, <<<<"b">>>>}

\* what a root may hold: up to MaxFiles of the candidates
Listings ==
    {[i \in 1..Cardinality(S) |-> LET f == Candidates[Sorted(S)[i]]
                                  IN [sub |-> f.sub, content |-> f.content]] :
        S \in {T \in SUBSET DOMAIN Candidates : Cardinality(T) <= MaxFiles}}

RECURSIVE SeqsUpTo(_, _)
SeqsUpTo(S, n) == IF n = 0 THEN {<<>>} ELSE SeqsUpTo(S, n - 1) \cup [1..n -> S]

\* app_path.rglob("*.py")
rglob(files, app_path) ==
    [i \in 1..Len(files[app_path]) |-> app_path \o files[app_path][i].sub]

\* what open() and read() meet at py_file
ContentAt(files, py_file) ==
    LET root == <<py_file[1]>>
        f == CHOOSE g \in {files[root][i] : i \in 1..Len(files[root])} :
                 root \o g.sub = py_file
    IN f.content

----------------------------------------------------------------------------
(* parse_code *)

\* parse_code catching SyntaxError only
parse_code_syntax_only(content) ==
    CASE content.kind = "text" ->
             [exc |-> None, tree |-> content.tree, source |-> SourceOf(content.tree)]
      [] content.kind = "syntax_error" ->
             [exc |-> None, tree |-> NoTree, source |-> NoSource]
      [] content.kind = "undecodable" ->
             [exc |-> "UnicodeDecodeError", tree |-> NoTree, source |-> NoSource]
      [] content.kind = "unreadable" ->
             [exc |-> "OSError", tree |-> NoTree, source |-> NoSource]

\* open, read and ast.parse under except (SyntaxError, UnicodeDecodeError):
\* the OSError of a failed open or read is not caught
parse_code(content) ==
    CASE content.kind = "text" ->
             [exc |-> None, tree |-> content.tree, source |-> SourceOf(content.tree)]
      [] content.kind \in {"syntax_error", "undecodable"} ->
             [exc |-> None, tree |-> NoTree, source |-> NoSource]
      [] content.kind = "unreadable" ->
             [exc |-> "OSError", tree |-> NoTree, source |-> NoSource]

----------------------------------------------------------------------------
(* generate_project_structure_json *)

Tick(t) == IF t < MaxClock THEN t + 1 ELSE t

\* the filter at the head of the file loop
is_skipped(py_file) ==
    Contains(Str(py_file), MIGRATIONS) /\ Name(py_file) # INIT_PY

\* the early exit returning project_data
no_apps_return_model(pd) == Return(Some(pd))

\* the bare return of the early exit
no_apps_return(pd) == Return(Absent)

\* apps.insert(0, app_data)
insert_app(pd, app) == [pd EXCEPT !.apps = <<app>> \o @]

\* project_data["apps"].append(app_data)
append_app(pd, app) == [pd EXCEPT !.apps = Append(@, app)]

file_data(py_file, items, imps) ==
    [name |-> Name(py_file),
     relative_path |-> Str(py_file),
     absolute_path |-> Resolve(py_file),
     items |-> items,
     imports |-> imps]

InitGen ==
    /\ pc = "start"
    /\ fs \in [Roots -> Listings]
    /\ app_paths \in SeqsUpTo(Roots, MaxRoots)
    /\ project_data = Absent /\ app_data = Absent
    /\ py_files = <<>> /\ ai = 0 /\ fi = 0
    /\ result = Running
    /\ output_file = Absent
    /\ now = 0
    /\ TreeIdle /\ LocIdle

\* lines 136-145: stamp the model, leave at once when no root is given
Start ==
    /\ pc = "start"
    /\ project_data' = [generated_at |-> now, apps |-> <<>>]
    /\ IF app_paths = <<>>
       THEN /\ result' = no_apps_return(project_data')
            /\ pc' = "done"
            /\ ai' = ai
       ELSE /\ result' = result
            /\ pc' = "app"
            /\ ai' = 1
    /\ now' = Tick(now)
    /\ UNCHANGED <<fs, app_paths, app_data, py_files, fi, output_file, treeVars, locVars>>

\* lines 147-155: the head of the loop over the roots
BeginApp ==
    /\ pc = "app"
    /\ app_data' = [name |-> Name(app_paths[ai]),
                    path |-> Str(app_paths[ai]),
                    files |-> <<>>]
    /\ py_files' = rglob(fs, app_paths[ai])
    /\ fi' = 1
    /\ pc' = "file"
    /\ now' = Tick(now)
    /\ UNCHANGED <<fs, app_paths, project_data, ai, result, output_file, treeVars, locVars>>

\* lines 156-159: a file the filter leaves out
SkipFile ==
    /\ pc = "file" /\ fi <= Len(py_files)
    /\ is_skipped(py_files[fi])
    /\ fi' = fi + 1
    /\ now' = Tick(now)
    /\ UNCHANGED <<pc, fs, app_paths, project_data, app_data, py_files, ai, result,
                   output_file, treeVars, locVars>>

\* lines 161-176: a file that is scanned; an exception out of parse_code
\* leaves the function
ScanFile ==
    /\ pc = "file" /\ fi <= Len(py_files)
    /\ ~is_skipped(py_files[fi])
    /\ LET parsed == parse_code(ContentAt(fs, py_files[fi]))
       IN IF parsed.exc # None
          THEN /\ result' = Raise(parsed.exc)
               /\ pc' = "done"
               /\ UNCHANGED <<tree, source, nodes, imports, app_data, fi>>
          ELSE /\ tree' = parsed.tree
               /\ source' = parsed.source
               /\ nodes' = extract_functions_classes(tree', source')
               /\ imports' = find_imports_and_relations(tree', source')
               /\ app_data' = [app_data EXCEPT
                      !.files = Append(@, file_data(py_files[fi], nodes', imports'))]
               /\ fi' = fi + 1
               /\ UNCHANGED <<pc, result>>
    /\ now' = Tick(now)
    /\ UNCHANGED <<fs, app_paths, project_data, py_files, ai, output_file, locVars>>

\* line 178: the foot of the loop over the roots
EndApp ==
    /\ pc = "file" /\ fi > Len(py_files)
    /\ project_data' = append_app(project_data, app_data)
    /\ IF ai < Len(app_paths)
       THEN ai' = ai + 1 /\ pc' = "app"
       ELSE ai' = ai /\ pc' = "save"
    /\ now' = Tick(now)
    /\ UNCHANGED <<fs, app_paths, app_data, py_files, fi, result, output_file,
                   treeVars, locVars>>

\* lines 180-185: write the document and return the model
Save ==
    /\ pc = "save"
    /\ output_file' = Some(project_data)
    /\ result' = Return(Some(project_data))
    /\ pc' = "done"
    /\ now' = Tick(now)
    /\ UNCHANGED <<fs, app_paths, project_data, app_data, py_files, ai, fi,
                   treeVars, locVars>>

Next == Start \/ BeginApp \/ SkipFile \/ ScanFile \/ EndApp \/ Save

Spec == InitGen /\ [][Next]_vars

----------------------------------------------------------------------------
(* Properties of the declaration extractor (SpecDecl) *)

DefNodes(t) == {i \in NodeIds(t) : KindOf(t, i) \in DefKinds}
FunctionNodes(t) == {i \in NodeIds(t) : KindOf(t, i) \in FunctionKinds}

\* record r stands for definition node i: it carries the node's line, name
\* and kind
Represents(t, r, i) ==
    /\ r.location.line_start = i
    /\ r.name = t.stmt[i].name
    /\ IF KindOf(t, i) = "ClassDef"
       THEN r.type = "Class"
       ELSE r.type = "Function" /\ r.is_async = (KindOf(t, i) = "AsyncFunctionDef")

\* C1: for a tree that parsed, every function, async function and class
\* definition node, at any depth, is represented by exactly one record of the
\* returned list, and the list holds nothing else (as many records as
\* definition nodes).
C1_EveryDefinitionExactlyOnce ==
    (pc = "extracted" /\ ~tree.absent) =>
        /\ Len(nodes) = Cardinality(DefNodes(tree))
        /\ \A i \in DefNodes(tree) :
               Cardinality({k \in 1..Len(nodes) : Represents(tree, nodes[k], i)}) = 1

\* a function inside a class inside a conditional was extracted, next to its
\* class
C1_Witness ==
    /\ pc = "extracted" /\ ~tree.absent
    /\ Len(nodes) = 2
    /\ \E i \in FunctionNodes(tree) :
           /\ Depth(tree, i) = 3
           /\ KindOf(tree, tree.parent[i]) = "ClassDef"
           /\ KindOf(tree, tree.parent[tree.parent[i]]) = "If"

\* method entry m stands for function node f
IsMethodEntry(t, m, f) ==
    /\ m.location.line_start = f
    /\ m.name = t.stmt[f].name
    /\ m.is_async = (KindOf(t, f) = "AsyncFunctionDef")

\* C2: the methods list of every Class record holds one entry for every
\* function or async function below the class node at any depth, no entry for
\* a function outside the class's subtree, and no entry for the class node
\* itself.
C2_MethodsAreTheFunctionsBelow ==
    (pc = "extracted" /\ ~tree.absent) =>
        \A k \in 1..Len(nodes) :
            nodes[k].type = "Class" =>
                LET c == nodes[k].location.line_start
                    ms == nodes[k].methods
                    below == {f \in FunctionNodes(tree) : c \in Ancestors(tree.parent, f)}
                IN /\ KindOf(tree, c) = "ClassDef"
                   /\ Len(ms) = Cardinality(below)
                   /\ \A f \in FunctionNodes(tree) :
                          Cardinality({j \in 1..Len(ms) : IsMethodEntry(tree, ms[j], f)})
                              = IF f \in below THEN 1 ELSE 0
                   /\ \A j \in 1..Len(ms) : ms[j].location.line_start # c

\* a class whose methods list holds a function that is not in its own body
\* but deeper, while another function of the file lies outside the class
C2_Witness ==
    /\ pc = "extracted" /\ ~tree.absent
    /\ \E k \in 1..Len(nodes) :
           /\ nodes[k].type = "Class"
           /\ \E j \in 1..Len(nodes[k].methods) :
                  tree.parent[nodes[k].methods[j].location.line_start]
                      # nodes[k].location.line_start
    /\ \E k \in 1..Len(nodes) :
           /\ nodes[k].type = "Class"
           /\ \E f \in FunctionNodes(tree) :
                  nodes[k].location.line_start \notin Ancestors(tree.parent, f)

----------------------------------------------------------------------------
(* Properties of the import extractor (SpecImports) *)

ImportNodes(t) == {i \in NodeIds(t) : KindOf(t, i) \in ImportKinds}

\* C3: the import records are in source declaration order: the records of a
\* statement that comes earlier in the text come before those of a later
\* one, at any nesting depth.
C3_SourceOrder ==
    (pc = "imported" /\ ~tree.absent) =>
        imports = ImportsIn(tree, Sorted(NodeIds(tree)))

\* the targets of the import statements of t: statement and position
Targets(t) ==
    UNION {{<<i, k>> : k \in 1..Len(t.stmt[i].names)} : i \in ImportNodes(t)}

\* the record the specification gives target k of statement i
ClaimedRecord(t, i, k) ==
    LET s == t.stmt[i]
        m == s.names[k]
    IN IF s.kind = "Import"
       THEN [type |-> "import", module |-> m.name,
             name |-> IF m.asname # None THEN m.asname ELSE m.name]
       ELSE [type |-> "importfrom",
             module |-> IF s.module = None THEN "" ELSE s.module,
             name |-> m.name, asname |-> m.asname]

\* C4: exactly one record per import target: as many records as targets, and
\* each claimed record occurs as often as there are targets it belongs to.
C4_OneRecordPerTarget ==
    (pc = "imported" /\ ~tree.absent) =>
        /\ Len(imports) = Cardinality(Targets(tree))
        /\ \A tg \in Targets(tree) :
               Cardinality({j \in 1..Len(imports) :
                                imports[j] = ClaimedRecord(tree, tg[1], tg[2])})
                 = Cardinality({ug \in Targets(tree) :
                                ClaimedRecord(tree, ug[1], ug[2])
                                    = ClaimedRecord(tree, tg[1], tg[2])})

\* a file with an aliased plain import of two targets and a from-import
\* without a module, four records in all
C4_Witness ==
    /\ pc = "imported" /\ ~tree.absent
    /\ Len(imports) = 4
    /\ \E i \in ImportNodes(tree) :
           /\ KindOf(tree, i) = "Import"
           /\ \E k \in 1..Len(tree.stmt[i].names) : tree.stmt[i].names[k].asname # None
    /\ \E i \in ImportNodes(tree) :
           KindOf(tree, i) = "ImportFrom" /\ tree.stmt[i].module = None

----------------------------------------------------------------------------
(* Properties of the location resolver (SpecLoc) *)

SpanFields == {"line_start", "line_end", "col_start", "col_end"}
LacksEnd(n) == ~n.has_end_lineno /\ ~n.has_end_col_offset
LineExists(lines, l) == l \in 1..Len(lines)

----------------------------------------------------------------------------
(* Properties of the aggregator (Spec) *)

Unparsable == {"syntax_error", "undecodable"}

\* the flow of control is at a file that passes the filter
AtQualifyingFile ==
    pc = "file" /\ fi <= Len(py_files) /\ ~is_skipped(py_files[fi])

EmptyRecord(py_file) ==
    [name |-> Name(py_file), relative_path |-> Str(py_file),
     absolute_path |-> Resolve(py_file), items |-> <<>>, imports |-> <<>>]

\* C5: a qualifying file whose content is not valid syntax or cannot be
\* decoded gets a file record with empty items and imports and with its name
\* and paths, the scan moves on to the next file of the root, and no error
\* ends the call.
C5_UnparsableFileGivesEmptyRecord ==
    [][(AtQualifyingFile /\ ContentAt(fs, py_files[fi]).kind \in Unparsable) =>
           /\ app_data'.files = Append(app_data.files, EmptyRecord(py_files[fi]))
           /\ fi' = fi + 1
           /\ pc' = "file"
           /\ result' = Running]_vars

\* a run that returned a model in which the empty record of an undecodable
\* file is followed by the record of a later file, in a root that is followed
\* by another root
C5_Witness ==
    /\ pc = "done" /\ result.kind = "return" /\ Len(app_paths) = 2
    /\ \E j \in 1..Len(fs[app_paths[1]]) :
           /\ fs[app_paths[1]][j].content.kind = "undecodable"
           /\ Len(project_data.apps[1].files) = 2
           /\ project_data.apps[1].files[1]
                  = EmptyRecord(app_paths[1] \o fs[app_paths[1]][j].sub)
    /\ Len(project_data.apps) = 2

\* C6: a read failure on a single file is not fatal: no exception ends the
\* call.
C6_ReadFailureIsNotFatal == result.kind # "raise"

\* C7, as stated: given no root, the call returns a model with an empty apps
\* sequence and its stamp.
C7_AsStated ==
    (pc = "done" /\ app_paths = <<>>) =>
        /\ result.kind = "return"
        /\ ~result.value.absent
        /\ result.value.data.apps = <<>>

\* C7, amended: given no root, the call returns None and writes no document;
\* given one or more roots, a call that returns returns a model with one app
\* record per root, so the two results differ also when no root holds a
\* qualifying file.
C7_NoRootsReturnsNone ==
    /\ (pc = "done" /\ app_paths = <<>>) =>
           /\ result = Return(Absent)
           /\ output_file = Absent
    /\ (pc = "done" /\ app_paths # <<>> /\ result.kind = "return") =>
           /\ ~result.value.absent
           /\ Len(result.value.data.apps) >= 1
           /\ output_file = result.value

\* a call without roots has returned
C7_Witness ==
    pc = "done" /\ app_paths = <<>> /\ result.kind = "return"

\* the directory segments of a path
Directories(path) == {path[i] : i \in 1..(Len(path) - 1)}

\* the enumerated files of the root that have a record in app_data
Recorded ==
    {py_file \in {py_files[i] : i \in 1..Len(py_files)} :
        \E j \in 1..Len(app_data.files) :
            app_data.files[j].relative_path = Str(py_file)}

\* C8: when a root has been scanned, an enumerated file has no record if and
\* only if a directory segment of its path is "migrations" and the file is
\* not __init__.py.
C8_LeftOutIffInMigrationsDirectory ==
    (pc = "file" /\ fi > Len(py_files)) =>
        \A i \in 1..Len(py_files) :
            (py_files[i] \notin Recorded)
                <=> (MIGRATIONS \in Directories(py_files[i]) /\ Name(py_files[i]) # INIT_PY)

\* C9: a call given roots that returns a model returns one app record per
\* root, in the order of the roots, each with the name and path of its root;
\* the stamp is the clock read at the start and never changes afterwards.
C9_OneAppPerRootInOrder ==
    /\ [](result.kind = "return" /\ app_paths # <<>> =>
              /\ Len(result.value.data.apps) = Len(app_paths)
              /\ \A i \in 1..Len(app_paths) :
                     /\ result.value.data.apps[i].name = Name(app_paths[i])
                     /\ result.value.data.apps[i].path = Str(app_paths[i]))
    /\ [][IF pc = "start"
          THEN project_data'.generated_at = now
          ELSE project_data'.generated_at = project_data.generated_at]_vars

\* two different roots, the first without a qualifying file, the second with
\* one, returned in that order with a stamp older than the clock
C9_Witness ==
    /\ pc = "done" /\ result.kind = "return"
    /\ Len(app_paths) = 2 /\ app_paths[1] # app_paths[2]
    /\ result.value.data.apps[1].files = <<>>
    /\ result.value.data.apps[2].files # <<>>
    /\ result.value.data.apps[2].name = Name(app_paths[2])
    /\ result.value.data.generated_at < now

====
